---- MODULE Spec2Model ----
(***************************************************************************)
(* Model of the Beat service of rusty-celery (src/src/beat/mod.rs): the    *)
(* outer supervision loop Beat::start, the inner Beat::beat_loop, and the  *)
(* Scheduler / ScheduledTask / Schedule it drives.  The scheduler, the     *)
(* scheduled task, the schedules, the scheduler backend and the broker     *)
(* live in modules that are declared in beat/mod.rs (mod scheduler; mod    *)
(* scheduled_task; mod schedule; mod backend; crate::broker) but whose     *)
(* files are not part of the sources at hand; they are modelled from the   *)
(* design description (sections 4.A-4.D, 6 and 7).                         *)
(*                                                                         *)
(* Time is an integer number of seconds.  Every await of the source is a   *)
(* step boundary of the model.                                             *)
(*                                                                         *)
(* The second half models the result backend (src/src/backend/mod.rs, its  *)
(* Redis and MongoDB implementations) and the AsyncResult handle           *)
(* (src/src/task/async_result.rs).  It has specifications of its own,      *)
(* BackendSpec and WaitSpec, in which the Beat is built and never started; *)
(* in Spec no result backend is built.  TaskState and BackendError are     *)
(* defined in files that are not part of the sources at hand and are       *)
(* taken from the design description (sections 3, 6 and 7).                *)
(***************************************************************************)
EXTENDS Integers, Sequences, FiniteSets, Bags, TLC

(* ---------------------------- bounds ----------------------------------- *)
\* the clock is explored up to MaxTime
MaxTime == 4
\* broker_connection_max_retries is drawn from 0..MaxRetries
MaxRetries == 2

\* the tasks registered with schedule_task before start, in this order
TaskNames == <<"A", "B">>
\* the periods d of the DeltaSchedule(d) an entry may carry
Periods == {1, 2}
\* the values broker_connection_retry_delay is drawn from (seconds)
RetryDelays == {1, 2}
\* An Option<T> is the set of its values: {} is None, {v} is Some(v).
None == {}
Some(v) == {v}
\* the values max_sleep_duration is drawn from (Option<Duration>, seconds)
MaxSleepDurations == {None, Some(1)}

(* ---------------------------- errors ----------------------------------- *)
\* BrokerError values classified as connection errors by is_connection_error
ConnectionErrors == {"IoError", "NotConnected"}
\* BrokerError values that are not connection errors
OtherBrokerErrors == {"ProtocolError", "BadRoutingPattern"}
BrokerErrors == ConnectionErrors \cup OtherBrokerErrors
\* BeatError variants that do not wrap a BrokerError (scheduling faults)
NonBrokerErrors == {"ScheduleError"}
BeatErrors == BrokerErrors \cup NonBrokerErrors

is_connection_error(err) == err \in ConnectionErrors
IsBrokerError(err) == err \in BrokerErrors

\* Result<Instant, BeatError>
Ok(at) == [ok |-> TRUE, at |-> at, err |-> "none"]
Err(err) == [ok |-> FALSE, at |-> 0, err |-> err]

\* the scheduler backends: the default LocalSchedulerBackend or a custom one
SchedulerBackends == {"local", "custom"}

VARIABLES
    \* configuration carried by Beat (fixed by the builder)
    broker_connection_retry,
    broker_connection_max_retries,
    broker_connection_retry_delay,
    max_sleep_duration,
    scheduler_backend,
    \* the wall clock (SystemTime::now())
    now,
    \* the scheduler's entries, indexed by registration order
    tasks,
    \* position of Beat::start / Beat::beat_loop / Scheduler::tick
    pc,
    \* the now() of the tick in progress
    tickNow,
    \* what the tick in progress returns: Ok(at) or Err(err)
    tickResult,
    \* beat_loop's local next_tick_at
    next_tick_at,
    \* the error beat_loop returned to start ("none" while it runs)
    loopResult,
    \* the index of the for loop over 0..broker_connection_max_retries
    retryIdx,
    \* what Beat::start returned ("running" until it returns)
    ret,
    \* ---- observation (history) variables, never read by the program ----
    \* publish attempts of the tick in progress, in order: the entry (id,
    \* name), its next_call_at when popped, the outcome class, and whether a
    \* publish that failed with a connection error was still outstanding
    published,
    \* number of messages of each entry the broker accepted
    accepted,
    \* the entries as they were when the tick in progress began
    tickStart,
    \* the entry whose publish failed with a connection error and has not
    \* been attempted since: Some([id, at]) or None
    failedEntry,
    \* broker.reconnect calls of the current reconnect episode
    episodeReconnects,
    \* TRUE once broker.reconnect was ever called
    everReconnected,
    \* whether an entry keeps the instant of its registration (t0) for the
    \* phase property; fixed from the initial state on
    record_t0,
    \* the last call start made to a collaborator, with its outcome
    lastEvent,
    \* the error the broker answered the last publish or reconnect with
    \* ("none" when it succeeded)
    brokerErr,
    \* ---- the result backend and one AsyncResult handle ----
    \* which Backend implementation was built: "redis" or "mongo"
    backend_kind,
    \* the Redis keyspace: for each task id the value of task:<id>, None or
    \* Some(JSON)
    keys,
    \* the MongoDB collection: a bag of documents
    collection,
    \* AsyncResult::backend: None or Some(backend_kind)
    backend,
    \* the client's call in progress: its position, the operation, the task
    \* id, whether no write landed between the EXISTS and the GET of
    \* get_task_meta (fresh), what the loop of wait_for_completion last read
    \* (seen) and the state its caller waits for (target)
    client,
    \* ---- observation (history) variables, never read by the program ----
    \* the last call of the client that returned (none while a call of
    \* its is in progress; a write made meanwhile is another caller's):
    \* operation, task id, the metadata handed to store_result_inner, the
    \* value returned, and what the backend answered
    call,
    \* task ids whose record was written with date_done and not forgotten
    \* since
    dated,
    \* the last store_result or forget that returned Ok: the task id, and
    \* the metadata of a store_result
    written

beatVars == <<broker_connection_retry, broker_connection_max_retries,
              broker_connection_retry_delay, max_sleep_duration,
              scheduler_backend, now, tasks, pc,
              tickNow, tickResult, next_tick_at, loopResult, retryIdx, ret,
              published, accepted, tickStart, failedEntry, episodeReconnects,
              everReconnected, lastEvent, brokerErr, record_t0>>
storeVars == <<keys, collection>>
backendVars == <<backend_kind, keys, collection, backend, client, call,
                 dated, written>>
vars == <<beatVars, backendVars>>

cfgVars == <<broker_connection_retry, broker_connection_max_retries,
             broker_connection_retry_delay, max_sleep_duration,
             scheduler_backend, record_t0>>
tickVars == <<tickNow, tickResult, published, tickStart>>
obsReconnect == <<episodeReconnects, everReconnected>>

(* ------------------------- Schedule, ScheduledTask --------------------- *)
\* DeltaSchedule(d).next(after) = after + d
ScheduleNext(d, after) == after + d

\* a new entry: next_call_at = schedule.next(last_run_at ?? now);
\* t0 remembers the instant of the registration (None unless record_t0) and
\* is never read by a step
NewScheduledTask(name, d, at) ==
    [name |-> name, d |-> d, last_run_at |-> None, total_run_count |-> 0,
     next_call_at |-> ScheduleNext(d, at),
     t0 |-> IF record_t0 THEN Some(at) ELSE None]

\* mark_fired(at)
mark_fired(e, at) ==
    [e EXCEPT !.last_run_at = Some(at),
              !.total_run_count = @ + 1,
              !.next_call_at = ScheduleNext(e.d, at)]

\* catch-up: apply schedule.next until next_call_at is strictly after t
RECURSIVE CatchUp(_, _)
CatchUp(e, t) ==
    IF e.next_call_at > t THEN e
    ELSE CatchUp([e EXCEPT !.next_call_at = ScheduleNext(e.d, @)], t)

\* a tick that leaves the missed occurrences due
Fired_NoCatchUp(e, t) == mark_fired(e, e.next_call_at)

\* a tick that gives mark_fired the instant it read from the clock
Fired_AtNow(e, t) == CatchUp(mark_fired(e, t), t)

\* the entry after a successful publish
Fired(e, t) == CatchUp(mark_fired(e, e.next_call_at), t)

\* a tick that counts a refused message as fired
Advanced_MarksFired(e, t) == CatchUp(mark_fired(e, e.next_call_at), t)

\* the entry after a publish that failed with a non-connection error:
\* it advances, but mark_fired is reserved for successful publishes
Advanced(e, t) ==
    CatchUp([e EXCEPT !.next_call_at = ScheduleNext(e.d, @)], t)

(* ------------------------------ Scheduler ------------------------------ *)
\* a heap that breaks ties by the latest registration
Before_LastRegisteredFirst(ts, i, j) ==
    \/ ts[i].next_call_at < ts[j].next_call_at
    \/ ts[i].next_call_at = ts[j].next_call_at /\ i > j

\* heap order: key (next_call_at, insertion_seq), min first
Before(ts, i, j) ==
    \/ ts[i].next_call_at < ts[j].next_call_at
    \/ ts[i].next_call_at = ts[j].next_call_at /\ i < j

\* peek: the id of the min entry (the heap is not empty)
Peek(ts) == CHOOSE i \in DOMAIN ts : \A j \in DOMAIN ts \ {i} : Before(ts, i, j)

\* a tick that fires only what is strictly overdue
Due_Strict(e, t) == e.next_call_at < t

\* an entry is due at t
Due(e, t) == e.next_call_at <= t

\* default_interval of the scheduler (seconds)
DefaultInterval == 1

\* the value tick returns once nothing is due any more
TickReturn(ts, t) ==
    IF DOMAIN ts = {} THEN t + DefaultInterval
    ELSE ts[Peek(ts)].next_call_at

(* ===================== the result backend: data ======================== *)
\* cap on the number of documents of the MongoDB collection
MaxDocs == 2

TaskIds == {"id1", "id2"}
\* the task id the AsyncResult handle was created with
HandleId == "id1"

TaskStates == {"Pending", "Started", "Retry", "Success", "Failure"}
Terminal(status) == status \in {"Success", "Failure"}

\* result: &str handed to mark_as_done; the second one is not JSON
Results == {"\"ok\"", "ok"}
Tracebacks == {"TaskError"}
Dates == {"T1"}

BackendErrors == {"NotSet", "DocumentNotFound", "Serialization", "Transport"}

\* Result<_, BackendError>: the error ("none" for Ok) and the value, in the
\* slot of its type: bool, TaskState, Option<_> or ResultMetadata (all
\* slots empty for Ok(()) and for Err)
OkUnit == [err |-> "none", bool |-> {}, state |-> {}, option |-> {},
           meta |-> {}]
OkBool(b) == [OkUnit EXCEPT !.bool = {b}]
OkState(st) == [OkUnit EXCEPT !.state = {st}]
OkOption(o) == [OkUnit EXCEPT !.option = {o}]
OkMeta(m) == [OkUnit EXCEPT !.meta = {m}]
BErr(e) == [OkUnit EXCEPT !.err = e]

ResultMetadata(id, st, res, tb, dd) ==
    [task_id |-> id, status |-> st, result |-> res, traceback |-> tb,
     date_done |-> dd]

\* the records the four marking operations build
AddTaskMetadata(id) == ResultMetadata(id, "Pending", None, None, None)

StartedMetadata_Dated(id) ==
    ResultMetadata(id, "Started", None, None, Some("T1"))

StartedMetadata(id) == ResultMetadata(id, "Started", None, None, None)

DoneMetadata(id, r, d) == ResultMetadata(id, "Success", Some(r), None, Some(d))

FailureMetadata(id, tb, d) ==
    ResultMetadata(id, "Failure", None, Some(tb), Some(d))

\* a record a worker stores through store_result when the task is retried
RetryMetadata(id) == ResultMetadata(id, "Retry", None, None, None)

(* --------------------------- serialization ----------------------------- *)
\* TaskState on the wire
StatusString(st) ==
    CASE st = "Pending" -> "PENDING"
      [] st = "Started" -> "STARTED"
      [] st = "Retry"   -> "RETRY"
      [] st = "Success" -> "SUCCESS"
      [] st = "Failure" -> "FAILURE"

ParseStatus(str) == {st \in TaskStates : StatusString(st) = str}

\* Option<T> on the wire: null, or the value
OptionToJson(o) == IF o = None THEN << >> ELSE <<CHOOSE v \in o : TRUE>>
OptionFromJson(j) == IF j = << >> THEN None ELSE Some(j[1])

\* serde_json::to_string(&metadata), and the document insert_one and
\* replace_one write
to_string(m) ==
    [task_id |-> m.task_id, status |-> StatusString(m.status),
     result |-> OptionToJson(m.result),
     traceback |-> OptionToJson(m.traceback),
     date_done |-> OptionToJson(m.date_done)]

\* serde_json::from_str::<ResultMetadata>
from_str(j) ==
    IF ParseStatus(j.status) = {}
    THEN BErr("Serialization")
    ELSE OkMeta(ResultMetadata(j.task_id,
                               CHOOSE st \in ParseStatus(j.status) : TRUE,
                               OptionFromJson(j.result),
                               OptionFromJson(j.traceback),
                               OptionFromJson(j.date_done)))

\* serde_json::from_str::<T> of AsyncResult::result, for T = String
from_str_T(r) ==
    IF r = "\"ok\"" THEN OkOption(Some("ok")) ELSE BErr("Serialization")

(* ----------------------------- the stores ------------------------------ *)
\* RedisBackend::store_result_inner: SET task:<id> <json>, or DEL task:<id>
RedisStore(ks, task_id, metadata) ==
    IF metadata = None
    THEN [ks EXCEPT ![task_id] = None]
    ELSE [ks EXCEPT ![task_id] = Some(to_string(CHOOSE m \in metadata : TRUE))]

\* the documents the filter {task_id: <id>} matches
Matching(coll, task_id) == {d \in BagToSet(coll) : d.task_id = task_id}

DeleteOne(coll, task_id) ==
    IF Matching(coll, task_id) = {}
    THEN {coll}
    ELSE {coll (-) SetToBag({d}) : d \in Matching(coll, task_id)}

InsertOne(coll, doc) == {coll (+) SetToBag({doc})}

\* replace_one(filter, metadata, None): no options, so no upsert
ReplaceOne(coll, task_id, doc) ==
    IF Matching(coll, task_id) = {}
    THEN {coll}
    ELSE {(coll (-) SetToBag({d})) (+) SetToBag({doc}) :
             d \in Matching(coll, task_id)}

\* MongoBackend::store_result_inner: the collections it may leave (MongoDB
\* picks the document when several match)
MongoStore(coll, task_id, metadata) ==
    IF metadata = None
    THEN DeleteOne(coll, task_id)
    ELSE LET m == CHOOSE x \in metadata : TRUE
         IN  IF m.status = "Pending"
             THEN InsertOne(coll, to_string(m))
             ELSE ReplaceOne(coll, task_id, to_string(m))

\* what get_task_meta may return when the store answers
RedisMeta(ks, task_id) ==
    IF ks[task_id] = None
    THEN {BErr("DocumentNotFound")}
    ELSE {from_str(CHOOSE j \in ks[task_id] : TRUE)}

MongoMeta(coll, task_id) ==
    IF Matching(coll, task_id) = {}
    THEN {BErr("DocumentNotFound")}
    ELSE {from_str(d) : d \in Matching(coll, task_id)}

Meta(kind, ks, coll, task_id) ==
    IF kind = "redis" THEN RedisMeta(ks, task_id) ELSE MongoMeta(coll, task_id)

\* the records stored under a task id
Stored(kind, ks, coll, task_id) ==
    UNION {r.meta : r \in Meta(kind, ks, coll, task_id)}

(* --------------------------- the client -------------------------------- *)
IdleClient ==
    [pc |-> "idle", op |-> "none", id |-> "none", fresh |-> TRUE,
     seen |-> None, target |-> "none"]

NoCall ==
    [op |-> "none", id |-> "none", meta |-> None, res |-> OkUnit,
     inner |-> "not_called", seen |-> None, fresh |-> TRUE, target |-> "none"]

NoWrite == [op |-> "none", id |-> "none", meta |-> None]

\* the backend part of a state in which no backend was built
NoBackend ==
    /\ backend_kind = "none"
    /\ keys = [id \in TaskIds |-> None]
    /\ collection = EmptyBag
    /\ backend = None
    /\ client = IdleClient
    /\ call = NoCall
    /\ dated = {}
    /\ written = NoWrite

(* ------------------------------- Init ---------------------------------- *)
\* a Beat that was built and whose start was not called yet
NotStarted ==
    /\ now = 0
    /\ tasks = << >>
    /\ pc = "idle"
    /\ tickNow = 0
    /\ tickResult = Ok(0)
    /\ next_tick_at = 0
    /\ loopResult = "none"
    /\ retryIdx = 0
    /\ ret = "running"
    /\ published = << >>
    /\ accepted = << >>
    /\ tickStart = << >>
    /\ failedEntry = None
    /\ episodeReconnects = 0
    /\ everReconnected = FALSE
    /\ lastEvent = "none"
    /\ brokerErr = "none"

Configured ==
    /\ broker_connection_retry \in BOOLEAN
    /\ broker_connection_max_retries \in 0..MaxRetries
    /\ broker_connection_retry_delay \in RetryDelays
    \* without broker_connection_retry the other two are never read by start:
    \* one representative is enough
    /\ ~broker_connection_retry =>
          /\ broker_connection_max_retries = MaxRetries
          /\ broker_connection_retry_delay = 1
    /\ max_sleep_duration \in MaxSleepDurations
    /\ scheduler_backend \in SchedulerBackends

Init ==
    /\ Configured
    /\ record_t0 = FALSE
    /\ NotStarted
    /\ NoBackend

\* the same Beat with the registration instants kept, and no cap on the
\* sleep (a cap only adds ticks that find nothing due)
PhaseInit ==
    /\ Configured
    /\ max_sleep_duration = None
    /\ record_t0 = TRUE
    /\ NotStarted
    /\ NoBackend

(* --------------------------- the wall clock ---------------------------- *)
\* time passes while start is not yet called, and while it is suspended in
\* broker.publish or broker.reconnect (the sleeps advance the clock themselves)
Tock ==
    /\ UNCHANGED backendVars
    /\ pc \in {"idle", "ticking", "reconnect"}
    /\ now < MaxTime
    /\ now' = now + 1
    /\ UNCHANGED <<cfgVars, tasks, pc, tickVars, next_tick_at, loopResult,
                   retryIdx, ret, accepted, failedEntry, obsReconnect,
                   lastEvent, brokerErr>>

(* ---------------------- Beat::schedule_named_task ---------------------- *)
\* schedule_named_task hands the entry to scheduler.schedule_task, which
\* pushes it with next_call_at = schedule.next(now()); the registration
\* order is the order of the calls
schedule_task(ts, name, d, at) == Append(ts, NewScheduledTask(name, d, at))

ScheduleTask ==
    /\ UNCHANGED backendVars
    /\ pc = "idle"
    /\ Len(tasks) < Len(TaskNames)
    /\ \E d \in Periods :
         tasks' = schedule_task(tasks, TaskNames[Len(tasks) + 1], d, now)
    /\ accepted' = Append(accepted, 0)
    /\ UNCHANGED <<cfgVars, now, pc, tickVars, next_tick_at, loopResult,
                   retryIdx, ret, failedEntry, obsReconnect, lastEvent,
                   brokerErr>>

(* --------------------------- Scheduler::tick --------------------------- *)
\* broker.publish: accepted, or refused with a BrokerError
PublishOutcomes == {"ok"} \cup ConnectionErrors \cup {"ProtocolError"}

\* connection error, other error or success
OutcomeClass(out) ==
    IF out = "ok" THEN "ok"
    ELSE IF is_connection_error(out) THEN "conn" ELSE "other"

\* a tick that reinserts a refused entry as it was
AfterPublish_RefusedStaysDue(e, out, t) ==
    IF out = "ok" THEN Fired(e, t) ELSE e

\* the popped entry as it is reinserted after the publish ended with out
AfterPublish(e, out, t) ==
    IF out = "ok" THEN Fired(e, t)
    ELSE IF is_connection_error(out) THEN e
    ELSE Advanced(e, t)

\* tick reads now() and starts popping
TickBegin ==
    /\ UNCHANGED backendVars
    /\ pc = "tick"
    /\ pc' = "ticking"
    /\ tickNow' = now
    /\ published' = << >>
    /\ tickStart' = tasks
    /\ lastEvent' = "tick"
    /\ episodeReconnects' = 0
    /\ brokerErr' = "none"
    /\ UNCHANGED <<cfgVars, now, tasks, tickResult, next_tick_at, loopResult,
                   retryIdx, ret, accepted, failedEntry, everReconnected>>

\* the min entry is due: pop it, publish its message, reinsert it
TickPublish ==
    /\ UNCHANGED backendVars
    /\ pc = "ticking"
    /\ DOMAIN tasks # {}
    /\ Due(tasks[Peek(tasks)], tickNow)
    /\ \E out \in PublishOutcomes :
         LET i == Peek(tasks)
             e == tasks[i]
         IN /\ tasks' = [tasks EXCEPT ![i] = AfterPublish(e, out, tickNow)]
            /\ published' = Append(published,
                    [id |-> i, name |-> e.name, at |-> e.next_call_at,
                     out |-> OutcomeClass(out),
                     again |-> failedEntry # None])
            /\ accepted' = [accepted EXCEPT ![i] = IF out = "ok" THEN @ + 1 ELSE @]
            /\ brokerErr' = IF out = "ok" THEN "none" ELSE out
            /\ IF out # "ok" /\ is_connection_error(out)
               THEN /\ tickResult' = Err(out)
                    /\ pc' = "tick_return"
                    /\ failedEntry' =
                           Some([id |-> i, at |-> e.next_call_at])
                    /\ lastEvent' = "publish_conn"
               ELSE /\ UNCHANGED tickResult
                    /\ pc' = "ticking"
                    /\ failedEntry' = None
                    /\ lastEvent' = IF out = "ok" THEN "publish_ok"
                                                  ELSE "publish_other"
    /\ UNCHANGED <<cfgVars, now, tickNow, tickStart, next_tick_at, loopResult,
                   retryIdx, ret, obsReconnect>>

\* nothing is due (any more): tick returns the next wake-up time
TickEnd ==
    /\ UNCHANGED backendVars
    /\ pc = "ticking"
    /\ DOMAIN tasks # {} => ~Due(tasks[Peek(tasks)], tickNow)
    /\ tickResult' = Ok(TickReturn(tasks, tickNow))
    /\ pc' = "tick_return"
    /\ failedEntry' = None
    /\ UNCHANGED <<cfgVars, now, tasks, tickNow, published, tickStart,
                   next_tick_at, loopResult, retryIdx, ret, accepted,
                   obsReconnect, lastEvent, brokerErr>>

(* --------------------------- Beat::beat_loop --------------------------- *)
\* a beat_loop that logs tick's error and carries on
TickQuestionMark_Swallows(r) ==
    IF r.ok THEN [pc |-> "should_sync", next_tick_at |-> r.at, err |-> "none"]
    ELSE [pc |-> "should_sync", next_tick_at |-> next_tick_at, err |-> "none"]

\* let next_tick_at = self.scheduler.tick().await?;
TickQuestionMark(r) ==
    IF r.ok THEN [pc |-> "should_sync", next_tick_at |-> r.at, err |-> "none"]
    ELSE [pc |-> "loop_result", next_tick_at |-> next_tick_at, err |-> r.err]

BeatLoopTick ==
    /\ UNCHANGED backendVars
    /\ pc = "tick_return"
    /\ pc' = TickQuestionMark(tickResult).pc
    /\ next_tick_at' = TickQuestionMark(tickResult).next_tick_at
    /\ loopResult' = TickQuestionMark(tickResult).err
    \* tick's frame is gone once its result is taken
    /\ tickNow' = 0
    /\ tickResult' = Ok(0)
    /\ published' = << >>
    /\ tickStart' = << >>
    /\ UNCHANGED <<cfgVars, now, tasks, retryIdx, ret, accepted,
                   failedEntry, obsReconnect, lastEvent, brokerErr>>

\* scheduler_backend.should_sync(): false forever for the local backend
ShouldSyncValues == IF scheduler_backend = "local" THEN {FALSE} ELSE BOOLEAN

\* a loop that syncs exactly when it was told there is nothing to sync
AfterShouldSync_Inverted(b) == IF b THEN "sleep" ELSE "sync"

\* if self.scheduler_backend.should_sync() { ... sync ... }
AfterShouldSync(b) == IF b THEN "sync" ELSE "sleep"

BeatLoopShouldSync ==
    /\ UNCHANGED backendVars
    /\ pc = "should_sync"
    /\ \E b \in ShouldSyncValues :
         /\ pc' = AfterShouldSync(b)
         /\ lastEvent' = IF b THEN "should_sync_true" ELSE "should_sync_false"
    /\ UNCHANGED <<cfgVars, now, tasks, tickVars, next_tick_at, loopResult,
                   retryIdx, ret, accepted, failedEntry, obsReconnect,
                   brokerErr>>

\* a backend replaces the schedule of an entry:
\* next_call_at = new_schedule.next(last_run_at ?? now())
Rescheduled(e, d, t) ==
    [e EXCEPT !.d = d,
              !.next_call_at = ScheduleNext(d,
                  IF e.last_run_at = None THEN t
                  ELSE CHOOSE x \in e.last_run_at : TRUE)]

\* the task sets a successful sync may leave
SyncChanges(ts, t) ==
    {ts} \cup {[ts EXCEPT ![i] = Rescheduled(ts[i], d, t)] :
                 i \in DOMAIN ts, d \in Periods}

\* scheduler_backend.sync(tasks): Ok, or a BeatError of any kind (a broker
\* connection error, another broker error, a non-broker error)
SyncOutcomes == {"ok", "IoError", "ProtocolError", "ScheduleError"}

\* self.scheduler_backend.sync(self.scheduler.get_scheduled_tasks())?;
BeatLoopSync ==
    /\ UNCHANGED backendVars
    /\ pc = "sync"
    /\ \E out \in SyncOutcomes :
         IF out = "ok"
         THEN /\ tasks' \in SyncChanges(tasks, now)
              /\ pc' = "sleep"
              /\ lastEvent' = "sync_ok"
              /\ UNCHANGED loopResult
         ELSE /\ loopResult' = out
              /\ pc' = "loop_result"
              /\ lastEvent' = "sync_err"
              /\ UNCHANGED tasks
    /\ UNCHANGED <<cfgVars, now, tickVars, next_tick_at, retryIdx, ret,
                   accepted, failedEntry, obsReconnect, brokerErr>>

\* the interval beat_loop sleeps for; 0 when now >= next_tick_at
Min(a, b) == IF a < b THEN a ELSE b

\* a beat_loop that forgets the cap
SleepInterval_NoCap(n, next, cap) == IF n < next THEN next - n ELSE 0

SleepInterval(n, next, cap) ==
    IF n < next
    THEN IF cap = None THEN next - n
         ELSE Min(next - n, CHOOSE c \in cap : TRUE)
    ELSE 0

BeatLoopSleep ==
    /\ UNCHANGED backendVars
    /\ pc = "sleep"
    /\ now + SleepInterval(now, next_tick_at, max_sleep_duration) <= MaxTime
    /\ now' = now + SleepInterval(now, next_tick_at, max_sleep_duration)
    /\ pc' = "tick"
    /\ lastEvent' = IF now < next_tick_at THEN "sleep" ELSE "no_sleep"
    /\ UNCHANGED <<cfgVars, tasks, tickVars, next_tick_at, loopResult,
                   retryIdx, ret, accepted, failedEntry, obsReconnect,
                   brokerErr>>

(* ----------------------------- Beat::start ----------------------------- *)
\* start is called: info!("Starting beat service"); loop { beat_loop() ...
Start ==
    /\ UNCHANGED backendVars
    /\ pc = "idle"
    /\ pc' = "tick"
    /\ lastEvent' = "start"
    /\ UNCHANGED <<cfgVars, now, tasks, tickVars, next_tick_at, loopResult,
                   retryIdx, ret, accepted, failedEntry, obsReconnect,
                   brokerErr>>

\* a start that forgets to look at broker_connection_retry
StartReturns_IgnoresRetryFlag(result) ==
    ~(IsBrokerError(result) /\ is_connection_error(result))

\* whether start returns beat_loop's result instead of reconnecting
StartReturns(result) ==
    \/ ~broker_connection_retry
    \/ ~(IsBrokerError(result) /\ is_connection_error(result))

\* beat_loop returned result: return it, or enter the reconnect loop
StartDispatch ==
    /\ UNCHANGED backendVars
    /\ pc = "loop_result"
    /\ IF StartReturns(loopResult)
       THEN /\ ret' = loopResult
            /\ pc' = "returned"
            /\ UNCHANGED <<retryIdx, episodeReconnects>>
       ELSE /\ retryIdx' = 0
            /\ episodeReconnects' = 0
            /\ pc' = "retry"
            /\ UNCHANGED ret
    /\ UNCHANGED <<cfgVars, now, tasks, tickVars, next_tick_at, loopResult,
                   accepted, failedEntry, everReconnected, lastEvent,
                   brokerErr>>

\* a loop over 0..=max_retries
MoreRetries_Inclusive(i) == i <= broker_connection_max_retries

\* for _ in 0..self.broker_connection_max_retries
MoreRetries(i) == i < broker_connection_max_retries

\* a start that makes the first attempt of an episode at once
RetryDelay_SkipsFirst(i) == IF i = 0 THEN 0 ELSE broker_connection_retry_delay

\* Duration::from_secs(self.broker_connection_retry_delay as u64), the same
\* for every iteration i of the for loop
RetryDelay(i) == broker_connection_retry_delay

\* time::sleep(broker_connection_retry_delay) before each attempt
RetrySleep ==
    /\ UNCHANGED backendVars
    /\ pc = "retry"
    /\ MoreRetries(retryIdx)
    /\ now + RetryDelay(retryIdx) <= MaxTime
    /\ now' = now + RetryDelay(retryIdx)
    /\ pc' = "reconnect"
    /\ lastEvent' = "retry_sleep"
    /\ UNCHANGED <<cfgVars, tasks, tickVars, next_tick_at, loopResult,
                   retryIdx, ret, accepted, failedEntry, obsReconnect,
                   brokerErr>>

\* broker.reconnect(timeout): Ok, or a BrokerError
ReconnectOutcomes == {"ok"} \cup BrokerErrors

\* a start that retries after every failed reconnect, connection error or not
AfterReconnect_RetriesAnyError(out) ==
    IF out = "ok" THEN [pc |-> "tick", ret |-> "running"]
    ELSE [pc |-> "retry", ret |-> "running"]

\* a start whose successful reconnect does not break out of the for loop
AfterReconnect_NoBreak(out) ==
    IF out = "ok" \/ is_connection_error(out)
    THEN [pc |-> "retry", ret |-> "running"]
    ELSE [pc |-> "returned", ret |-> out]

\* a start that resumes beat_loop behind the tick, at the backend sync
AfterReconnect_ResumesAtSync(out) ==
    IF out = "ok" THEN [pc |-> "sync", ret |-> "running"]
    ELSE IF is_connection_error(out) THEN [pc |-> "retry", ret |-> "running"]
    ELSE [pc |-> "returned", ret |-> out]

\* what start does with the outcome of broker.reconnect
AfterReconnect(out) ==
    IF out = "ok" THEN [pc |-> "tick", ret |-> "running"]
    ELSE IF is_connection_error(out) THEN [pc |-> "retry", ret |-> "running"]
    ELSE [pc |-> "returned", ret |-> out]

Reconnect ==
    /\ UNCHANGED backendVars
    /\ pc = "reconnect"
    /\ \E out \in ReconnectOutcomes :
         /\ pc' = AfterReconnect(out).pc
         /\ ret' = AfterReconnect(out).ret
         /\ lastEvent' = IF out = "ok" THEN "reconnect_ok"
                         ELSE IF is_connection_error(out) THEN "reconnect_conn"
                         ELSE "reconnect_other"
         \* result and the loop index go out of scope with the iteration
         /\ loopResult' = IF out = "ok" THEN "none" ELSE loopResult
         /\ retryIdx' = IF out = "ok" THEN 0 ELSE retryIdx + 1
         /\ brokerErr' = IF out = "ok" THEN "none" ELSE out
    /\ episodeReconnects' = episodeReconnects + 1
    /\ everReconnected' = TRUE
    /\ UNCHANGED <<cfgVars, now, tasks, tickVars, next_tick_at,
                   accepted, failedEntry>>

\* a start that gives up with the error beat_loop had returned
GiveUp_OriginalError(result) == result

\* if !reconnect_successful { return Err(BrokerError::NotConnected) },
\* whatever connection error result beat_loop had returned
GiveUp(result) == "NotConnected"

\* the for loop ended without a successful reconnect
RetryExhausted ==
    /\ UNCHANGED backendVars
    /\ pc = "retry"
    /\ ~MoreRetries(retryIdx)
    /\ ret' = GiveUp(loopResult)
    /\ pc' = "returned"
    /\ UNCHANGED <<cfgVars, now, tasks, tickVars, next_tick_at, loopResult,
                   retryIdx, accepted, failedEntry, obsReconnect, lastEvent,
                   brokerErr>>

(* --------------------------- specification ----------------------------- *)
Next ==
    \/ Tock
    \/ ScheduleTask
    \/ Start
    \/ TickBegin
    \/ TickPublish
    \/ TickEnd
    \/ BeatLoopTick
    \/ BeatLoopShouldSync
    \/ BeatLoopSync
    \/ BeatLoopSleep
    \/ StartDispatch
    \/ RetrySleep
    \/ Reconnect
    \/ RetryExhausted

Spec == Init /\ [][Next]_vars

\* the same steps from PhaseInit
PhaseSpec == PhaseInit /\ [][Next]_vars

(* ==================== the result backend: operations =================== *)
HandleOps == {"AsyncResult::failed", "AsyncResult::forget",
              "AsyncResult::ready", "AsyncResult::result",
              "AsyncResult::traceback", "AsyncResult::state",
              "AsyncResult::successful", "AsyncResult::wait_for_completion"}
BackendReads == {"get_task_meta", "get_state", "get_result", "get_traceback"}
HandleReads == HandleOps \ {"AsyncResult::forget",
                            "AsyncResult::wait_for_completion"}

\* a command sent to the store is answered, or fails on the way
StoreOutcomes == {"ok", "Transport"}

\* get_state, get_result, get_traceback: projections of get_task_meta
Project(op, r) ==
    IF r.err # "none" THEN r
    ELSE LET m == CHOOSE x \in r.meta : TRUE
         IN  CASE op = "get_state"     -> OkState(m.status)
               [] op = "get_result"    -> OkOption(m.result)
               [] op = "get_traceback" -> OkOption(m.traceback)
               [] OTHER                -> r

\* the Backend operation an AsyncResult operation calls
BackendOf(op) ==
    CASE op \in {"AsyncResult::failed", "AsyncResult::ready",
                 "AsyncResult::state", "AsyncResult::successful"}
                                       -> "get_state"
      [] op = "AsyncResult::result"    -> "get_result"
      [] op = "AsyncResult::traceback" -> "get_traceback"
      [] op = "AsyncResult::forget"    -> "forget"
      [] OTHER                         -> op

\* what an AsyncResult operation makes of the answer of its backend
AsyncResultReturn(op, r) ==
    IF r.err # "none" THEN r
    ELSE CASE op = "AsyncResult::failed" -> OkBool(r.state = {"Failure"})
           [] op = "AsyncResult::ready" ->
                 OkBool(r.state = {"Success"} \/ r.state = {"Failure"})
           [] op = "AsyncResult::successful" ->
                 OkBool(r.state = {"Success"})
           [] op = "AsyncResult::result" ->
                 IF r.option = {None} THEN OkOption(None)
                 ELSE from_str_T(CHOOSE x \in UNION r.option : TRUE)
           [] OTHER -> r

throw_if_backend_not_set_Unchecked(b) == OkUnit

throw_if_backend_not_set(b) == IF b = None THEN BErr("NotSet") ELSE OkUnit

\* what the caller of op gets when get_task_meta, or the store, answered r
Return(op, r) ==
    IF op \in HandleOps
    THEN AsyncResultReturn(op, Project(BackendOf(op), r))
    ELSE Project(op, r)

Returned(op, id, meta, r, cl) ==
    [op |-> op, id |-> id, meta |-> meta, res |-> Return(op, r),
     inner |-> r.err, seen |-> cl.seen, fresh |-> cl.fresh,
     target |-> cl.target]

\* an AsyncResult operation that throw_if_backend_not_set stopped with r
Refused(op, id, r) == [NoCall EXCEPT !.op = op, !.id = id, !.res = r]

\* a write that lands between the EXISTS and the GET of a get_task_meta
Disturbed(cl, task_id) ==
    IF cl.pc = "exists" /\ cl.id = task_id
    THEN [cl EXCEPT !.fresh = FALSE]
    ELSE cl

\* store_result_inner of the backend that was built, called by op
store_result_inner(op, task_id, metadata) ==
    /\ \E out \in StoreOutcomes :
         /\ IF out # "ok"
            THEN UNCHANGED storeVars
            ELSE IF backend_kind = "redis"
                 THEN /\ keys' = RedisStore(keys, task_id, metadata)
                      /\ UNCHANGED collection
                 ELSE /\ collection' \in
                             MongoStore(collection, task_id, metadata)
                      /\ BagCardinality(collection') <= MaxDocs
                      /\ UNCHANGED keys
         /\ call' = IF client.pc # "idle" THEN call
                     ELSE Returned(op, task_id, metadata,
                                   IF out = "ok" THEN OkUnit
                                   ELSE BErr(out),
                                   IdleClient)
         /\ written' = IF out # "ok" THEN written
                        ELSE [op |-> IF metadata = None THEN "forget"
                                     ELSE "store",
                              id |-> task_id, meta |-> metadata]
         /\ dated' =
              IF out = "ok" /\ metadata = None THEN dated \ {task_id}
              ELSE IF \E r \in Stored(backend_kind, keys', collection',
                                      task_id) : r.date_done # None
                   THEN dated \cup {task_id}
                   ELSE dated
    /\ client' = Disturbed(client, task_id)
    /\ UNCHANGED <<beatVars, backend_kind, backend>>

\* Backend::store_result
store_result(op, task_id, metadata) ==
    store_result_inner(op, task_id, Some(metadata))

\* a backend was built
Built == backend_kind \in {"redis", "mongo"}

AddTask ==
    /\ Built
    /\ \E id \in TaskIds :
          store_result("add_task", id, AddTaskMetadata(id))

MarkAsStarted ==
    /\ Built
    /\ \E id \in TaskIds :
          store_result("mark_as_started", id, StartedMetadata(id))

MarkAsDone ==
    /\ Built
    /\ \E id \in TaskIds, r \in Results, d \in Dates :
          store_result("mark_as_done", id, DoneMetadata(id, r, d))

MarkAsFailure ==
    /\ Built
    /\ \E id \in TaskIds, tb \in Tracebacks, d \in Dates :
          store_result("mark_as_failure", id, FailureMetadata(id, tb, d))

StoreResult ==
    /\ Built
    /\ \E id \in TaskIds :
          store_result("store_result", id, RetryMetadata(id))

Forget ==
    /\ Built
    /\ \E id \in TaskIds : store_result_inner("forget", id, None)

(* ------------------------------ AsyncResult ---------------------------- *)
\* the calls a client can make: Backend operations on any task id,
\* AsyncResult operations on the task id of the handle
Ids(op) == IF op \in HandleOps THEN {HandleId} ELSE TaskIds

\* an AsyncResult operation goes on to its backend only past the check
Admitted(op) ==
    op \in HandleOps => throw_if_backend_not_set(backend).err = "none"

AsyncResultNotSet ==
    /\ client.pc = "idle"
    /\ \E op \in HandleOps :
         /\ ~Admitted(op)
         /\ call' = Refused(op, HandleId, throw_if_backend_not_set(backend))
    /\ UNCHANGED <<beatVars, backend_kind, backend, storeVars, client,
                   dated, written>>

AsyncResultForget ==
    /\ client.pc = "idle"
    /\ Admitted("AsyncResult::forget")
    /\ store_result_inner("AsyncResult::forget", HandleId, None)

(* ---------------------------- get_task_meta ---------------------------- *)
\* RedisBackend::get_task_meta up to EXISTS: DocumentNotFound when the key
\* is absent, else on to GET
RedisExists ==
    /\ client.pc = "idle"
    /\ backend_kind = "redis"
    /\ \E op \in BackendReads \cup HandleReads : \E id \in Ids(op) :
         /\ Admitted(op)
         /\ \E out \in StoreOutcomes :
              IF out # "ok"
              THEN /\ call' = Returned(op, id, None, BErr(out), IdleClient)
                   /\ UNCHANGED client
              ELSE IF keys[id] = None
                   THEN /\ call' = Returned(op, id, None,
                                            BErr("DocumentNotFound"),
                                            IdleClient)
                        /\ UNCHANGED client
                   ELSE /\ client' = [IdleClient EXCEPT !.pc = "exists",
                                                        !.op = op, !.id = id]
                        /\ call' = NoCall
    /\ UNCHANGED <<beatVars, backend_kind, backend, storeVars, dated,
                   written>>

\* GET task:<id> read as a String: the nil reply for an absent key is not
\* a String, and the Redis client fails with a RedisError of kind TypeError,
\* which ? hands on like every other RedisError
RedisGetString(ks, task_id, out) ==
    IF out # "ok" THEN [err |-> out, string |-> {}]
    ELSE IF ks[task_id] = None THEN [err |-> "TypeError", string |-> {}]
    ELSE [err |-> "none", string |-> ks[task_id]]

\* GET and serde_json::from_str
RedisGetMeta(ks, task_id, out) ==
    IF RedisGetString(ks, task_id, out).err # "none"
    THEN BErr(RedisGetString(ks, task_id, out).err)
    ELSE from_str(CHOOSE j \in RedisGetString(ks, task_id, out).string :
                     TRUE)

\* RedisBackend::get_task_meta from GET on
RedisGet ==
    /\ client.pc = "exists"
    /\ \E out \in StoreOutcomes :
         call' = Returned(client.op, client.id, None,
                          RedisGetMeta(keys, client.id, out), client)
    /\ client' = IdleClient
    /\ UNCHANGED <<beatVars, backend_kind, backend, storeVars, dated,
                   written>>

\* MongoBackend::get_task_meta: find_one
MongoFindOne ==
    /\ client.pc = "idle"
    /\ backend_kind = "mongo"
    /\ \E op \in BackendReads \cup HandleReads : \E id \in Ids(op) :
         /\ Admitted(op)
         /\ \E r \in MongoMeta(collection, id) \cup {BErr("Transport")} :
              call' = Returned(op, id, None, r, IdleClient)
    /\ UNCHANGED <<beatVars, backend_kind, backend, storeVars, client,
                   dated, written>>

(* ------------------------- wait_for_completion ------------------------- *)
\* the states a caller may want to wait for; the loop of RedisBackend has
\* no such parameter
WaitTargets == {"Started", "Success"}

WaitMatch_Swapped(status) ==
    CASE status = "Failure" -> Some(TRUE)
      [] status = "Success" -> Some(FALSE)
      [] OTHER              -> None

\* the match on result.status: break with a value, or go on
WaitMatch(status) ==
    CASE status = "Failure" -> Some(FALSE)
      [] status = "Success" -> Some(TRUE)
      [] OTHER              -> None

\* AsyncResult::wait_for_completion, and RedisBackend::wait_for_completion
\* up to the loop
WaitBegin ==
    /\ client.pc = "idle"
    /\ backend_kind = "redis"
    /\ Admitted("AsyncResult::wait_for_completion")
    /\ \E tgt \in WaitTargets, out \in StoreOutcomes :
         IF out # "ok"
         THEN /\ call' = Returned("AsyncResult::wait_for_completion",
                                  HandleId, None, BErr(out),
                                  [IdleClient EXCEPT !.target = tgt])
              /\ UNCHANGED client
         ELSE /\ client' = [IdleClient EXCEPT
                               !.pc = "probe",
                               !.op = "AsyncResult::wait_for_completion",
                               !.id = HandleId, !.target = tgt]
              /\ call' = NoCall
    /\ UNCHANGED <<beatVars, backend_kind, backend, storeVars, dated,
                   written>>

\* one iteration of the loop up to the match
WaitProbe ==
    /\ client.pc = "probe"
    /\ \E out \in StoreOutcomes :
         LET r == RedisGetMeta(keys, client.id, out)
             seen == {m.status : m \in r.meta}
             brk == UNION {WaitMatch(st) : st \in seen}
         IN  IF r.err # "none"
             THEN /\ call' = Returned(client.op, client.id, None, r,
                                      [client EXCEPT !.seen = None])
                  /\ client' = IdleClient
             ELSE IF brk # None
                  THEN /\ call' = Returned(client.op, client.id, None,
                                           OkBool(CHOOSE b \in brk : TRUE),
                                           [client EXCEPT !.seen = seen])
                       /\ client' = IdleClient
                  ELSE /\ client' = [client EXCEPT !.pc = "sleep",
                                                   !.seen = seen]
                       /\ UNCHANGED call
    /\ UNCHANGED <<beatVars, backend_kind, backend, storeVars, dated,
                   written>>

\* tokio::time::sleep(Duration::from_millis(200))
WaitSleep ==
    /\ client.pc = "sleep"
    /\ client' = [client EXCEPT !.pc = "probe"]
    /\ UNCHANGED <<beatVars, backend_kind, backend, storeVars, call, dated,
                   written>>

(* --------------------- the backend's specification --------------------- *)
\* a backend was built and is empty; the handle may or may not hold it
BackendInit ==
    /\ broker_connection_retry = TRUE
    /\ broker_connection_max_retries = MaxRetries
    /\ broker_connection_retry_delay = 1
    /\ max_sleep_duration = None
    /\ scheduler_backend = "local"
    /\ record_t0 = FALSE
    /\ NotStarted
    /\ backend_kind \in {"redis", "mongo"}
    /\ backend \in {None, Some(backend_kind)}
    /\ keys = [id \in TaskIds |-> None]
    /\ collection = EmptyBag
    /\ client = IdleClient
    /\ call = NoCall
    /\ dated = {}
    /\ written = NoWrite

BackendNext ==
    \/ AddTask
    \/ MarkAsStarted
    \/ MarkAsDone
    \/ MarkAsFailure
    \/ StoreResult
    \/ Forget
    \/ AsyncResultNotSet
    \/ AsyncResultForget
    \/ RedisExists
    \/ RedisGet
    \/ MongoFindOne
    \/ WaitBegin
    \/ WaitProbe
    \/ WaitSleep

BackendSpec == BackendInit /\ [][BackendNext]_vars

(* ------------------- wait_for_completion, on its own ------------------- *)
\* the Redis backend, the only one with a loop to wait in; the runtime keeps
\* polling the waiting future, so a probe or a sleep that can go on does
WaitInit == BackendInit /\ backend_kind = "redis"

WaitNext ==
    \/ AddTask
    \/ MarkAsStarted
    \/ MarkAsDone
    \/ MarkAsFailure
    \/ StoreResult
    \/ Forget
    \/ AsyncResultNotSet
    \/ AsyncResultForget
    \/ RedisExists
    \/ RedisGet
    \/ WaitBegin
    \/ WaitProbe
    \/ WaitSleep

WaitSpec ==
    /\ WaitInit
    /\ [][WaitNext]_vars
    /\ WF_vars(WaitProbe)
    /\ WF_vars(WaitSleep)

(* ============================= properties ============================== *)
\* start is in the reconnect subroutine (lines 323-353)
InReconnect == pc \in {"retry", "reconnect"}

\* C1: in a reconnect episode (beat_loop failed with a broker connection
\* error, broker_connection_retry enabled) at most
\* broker_connection_max_retries calls of broker.reconnect are made, and
\* when start returns after every one of them failed with a connection
\* error (none succeeded, none failed otherwise) it returns NotConnected.
C1_ReconnectBudget ==
    /\ episodeReconnects <= broker_connection_max_retries
    /\ (/\ pc = "returned"
        /\ broker_connection_retry
        /\ loopResult \in ConnectionErrors
        /\ lastEvent # "reconnect_other")
       => ret = "NotConnected"

\* start gave up after MaxRetries >= 2 failed attempts
C1_Witness ==
    /\ pc = "returned"
    /\ ret = "NotConnected"
    /\ lastEvent = "reconnect_conn"
    /\ episodeReconnects = broker_connection_max_retries
    /\ episodeReconnects >= 2

\* C2: start is in the reconnect subroutine only after beat_loop returned a
\* broker connection error with broker_connection_retry enabled, and in
\* that case it does not return before entering it; in every other case it
\* returns beat_loop's error unchanged without any broker.reconnect call
\* (none at all when retry is disabled, none since beat_loop started
\* otherwise).
C2_ReconnectIff ==
    /\ InReconnect =>
          broker_connection_retry /\ loopResult \in ConnectionErrors
    /\ (pc = "returned" /\ broker_connection_retry
            /\ loopResult \in ConnectionErrors) =>
          \/ lastEvent \in {"reconnect_conn", "reconnect_other"}
          \/ broker_connection_max_retries = 0 /\ ret = "NotConnected"
    /\ (pc = "returned"
            /\ ~(broker_connection_retry /\ loopResult \in ConnectionErrors)) =>
          ret = loopResult /\ episodeReconnects = 0
    /\ ~broker_connection_retry => ~everReconnected

\* retry disabled: a connection error of beat_loop is returned as it is
C2_Witness ==
    /\ pc = "returned"
    /\ ~broker_connection_retry
    /\ ret \in ConnectionErrors
    /\ ret = brokerErr

\* C3: once broker.reconnect has failed with a non-connection error, start
\* has returned exactly that error (not NotConnected) and nothing follows:
\* no further reconnect, sleep or tick.
C3_NonConnectionAborts ==
    lastEvent = "reconnect_other" =>
        /\ pc = "returned"
        /\ ret = brokerErr
        /\ ret \in OtherBrokerErrors
        /\ ret # "NotConnected"

\* the second attempt of an episode failed with a non-connection error
C3_Witness ==
    /\ lastEvent = "reconnect_other"
    /\ episodeReconnects = 2
    /\ ret = "BadRoutingPattern"

\* C4: after a successful broker.reconnect the next call start makes is
\* scheduler.tick: no reconnect, no delay sleep and no return come first.
C4_ResumeWithTick ==
    [][lastEvent = "reconnect_ok" =>
          /\ lastEvent' \in {"reconnect_ok", "tick"}
          /\ ret' = "running"
          /\ pc' \in {"tick", "ticking"}]_vars

\* a reconnect succeeded with attempts of the episode left over
C4_Witness ==
    /\ lastEvent = "reconnect_ok"
    /\ pc = "tick"
    /\ episodeReconnects < broker_connection_max_retries

(* ------------------------------ the tick ------------------------------- *)
\* the ids the tick in progress has handed to broker.publish
PublishedIds == {published[k].id : k \in DOMAIN published}

\* the tick in progress has returned Ok to beat_loop
TickReturnedOk == pc = "tick_return" /\ tickResult.ok

\* the step is a publish of entry i that ended with outcome class c
PublishStep(i, c) ==
    /\ pc = "ticking"
    /\ Len(published') = Len(published) + 1
    /\ published'[Len(published')].id = i
    /\ published'[Len(published')].out = c

\* the step is a successful backend sync
SyncStep == pc = "sync" /\ pc' = "sleep"

\* C5: a publish that fails with a connection error leaves every entry as
\* it was before the publish, the in-flight entry is back with the
\* last_run_at, total_run_count and next_call_at it had before the tick,
\* tick returns that very error, and beat_loop hands it on to start.
C5_ConnErrorReinsertsUnchanged ==
    [][/\ (pc = "ticking" /\ lastEvent' = "publish_conn") =>
            /\ tasks' = tasks
            /\ accepted' = accepted
            /\ \E f \in failedEntry' :
                  /\ tasks'[f.id] = tickStart[f.id]
                  /\ f.id = published'[Len(published')].id
            /\ brokerErr' \in ConnectionErrors
            /\ tickResult' = Err(brokerErr')
            /\ pc' = "tick_return"
       /\ (pc = "tick_return" /\ ~tickResult.ok) =>
            /\ pc' = "loop_result"
            /\ loopResult' = tickResult.err
            /\ tasks' = tasks]_vars

\* a tick published one entry and failed on the next with a connection error
C5_Witness ==
    /\ pc = "tick_return"
    /\ Len(published) = 2
    /\ published[1].out = "ok"
    /\ published[2].out = "conn"
    /\ tickResult = Err(brokerErr)

\* C6: from a publish that failed with a connection error until the entry
\* is handed to the broker again, the entry keeps its next_call_at, and the
\* first publish of the first tick after the reconnect is that entry's.
C6_FailedEntryFirstAfterReconnect ==
    /\ [](\A f \in failedEntry : tasks[f.id].next_call_at = f.at)
    /\ [][(failedEntry # None /\ pc = "ticking" /\ published = << >>) =>
            \/ pc' = "ticking" /\ published' = << >>
            \/ /\ Len(published') = 1
               /\ \A f \in failedEntry :
                     /\ published'[1].id = f.id
                     /\ published'[1].at = f.at]_vars

\* after an outage with a failed first attempt, the entry went out first
C6_Witness ==
    /\ pc = "ticking"
    /\ Len(published) = 1
    /\ published[1].again
    /\ published[1].out = "ok"
    /\ published[1].at < tickNow
    /\ lastEvent = "publish_ok"

\* C7 (as stated): total_run_count counts the accepted messages, and
\* last_run_at and next_call_at change only in a step that completes a
\* successful publish of the entry, or in a backend sync.
C7_Original ==
    /\ [](\A i \in DOMAIN tasks : tasks[i].total_run_count = accepted[i])
    /\ [][\A i \in DOMAIN tasks :
            (\/ tasks'[i].last_run_at # tasks[i].last_run_at
             \/ tasks'[i].next_call_at # tasks[i].next_call_at) =>
                PublishStep(i, "ok") \/ SyncStep]_vars

\* C7 (amended): total_run_count counts the accepted messages; last_run_at
\* and total_run_count change only in a step that completes a successful
\* publish of the entry; next_call_at changes only in such a step, in a
\* step that completes a publish of the entry which the broker refused
\* with a non-connection error, or in a backend sync.
C7_MarkFiredOnlyOnSuccess ==
    /\ [](\A i \in DOMAIN tasks : tasks[i].total_run_count = accepted[i])
    /\ [][\A i \in DOMAIN tasks :
            /\ (\/ tasks'[i].last_run_at # tasks[i].last_run_at
                \/ tasks'[i].total_run_count # tasks[i].total_run_count) =>
                   PublishStep(i, "ok")
            /\ tasks'[i].next_call_at # tasks[i].next_call_at =>
                   \/ PublishStep(i, "ok")
                   \/ PublishStep(i, "other")
                   \/ SyncStep]_vars

\* a refused message moved next_call_at and left the counters alone
C7_Witness ==
    /\ lastEvent = "publish_other"
    /\ pc = "ticking"
    /\ LET i == published[Len(published)].id
       IN /\ tasks[i].next_call_at > tickStart[i].next_call_at
          /\ tasks[i].total_run_count = tickStart[i].total_run_count
          /\ tasks[i].last_run_at = tickStart[i].last_run_at
          /\ accepted[i] = tasks[i].total_run_count
          /\ accepted[i] > 0

\* C8: a tick hands each entry to the broker at most once, however many
\* periods its fire time lies in the past, and when the tick returns every
\* entry's next_call_at is strictly after the now() the tick read.
C8_CatchUpOncePerTick ==
    /\ \A j, k \in DOMAIN published :
          j # k => published[j].id # published[k].id
    /\ TickReturnedOk =>
          \A i \in DOMAIN tasks : tasks[i].next_call_at > tickNow

\* an entry two or more periods late was published once and caught up
C8_Witness ==
    /\ TickReturnedOk
    /\ \E k \in DOMAIN published :
          LET i == published[k].id
          IN /\ published[k].out = "ok"
             /\ tickNow - published[k].at >= 2 * tasks[i].d
             /\ tasks[i].total_run_count = tickStart[i].total_run_count + 1
             /\ tasks[i].next_call_at > tickNow

\* position of a name in the order of the schedule_task calls
RegisteredAt(name) == CHOOSE k \in DOMAIN TaskNames : TaskNames[k] = name

\* C9: within one tick the publishes come in non-decreasing order of the
\* entries' next_call_at, and entries with equal next_call_at come in the
\* order of their registration.
C9_PublishOrder ==
    \A j, k \in DOMAIN published :
        j < k =>
            /\ published[j].at <= published[k].at
            /\ published[j].at = published[k].at =>
                  RegisteredAt(published[j].name) < RegisteredAt(published[k].name)

\* A and B were due at the same instant and went out A first
C9_Witness ==
    /\ Len(published) = 2
    /\ published[1].at = published[2].at
    /\ published[1].name = "A"
    /\ published[2].name = "B"

\* the smallest next_call_at among the entries (there is one)
EarliestNextCall(ts) ==
    CHOOSE m \in {ts[i].next_call_at : i \in DOMAIN ts} :
        \A i \in DOMAIN ts : m <= ts[i].next_call_at

\* C10: a tick that returns Ok has handed to the broker exactly the entries
\* whose next_call_at was <= the now() it read, and returns the smallest
\* next_call_at of the entries after the tick, or now + default_interval
\* when there is no entry; beat_loop takes that value as next_tick_at.
C10_TickFiresDueReturnsEarliest ==
    /\ TickReturnedOk =>
          /\ PublishedIds =
                {i \in DOMAIN tickStart : tickStart[i].next_call_at <= tickNow}
          /\ tickResult.at =
                IF DOMAIN tasks = {} THEN tickNow + DefaultInterval
                ELSE EarliestNextCall(tasks)
    /\ (pc = "should_sync" /\ DOMAIN tasks # {}) =>
          next_tick_at = EarliestNextCall(tasks)

\* one entry was due exactly now and fired, the other was not yet due
C10_Witness ==
    /\ TickReturnedOk
    /\ Len(tasks) = 2
    /\ Cardinality(PublishedIds) = 1
    /\ \E i \in PublishedIds : tickStart[i].next_call_at = tickNow
    /\ tickResult.at > tickNow

(* ------------------------------ beat_loop ------------------------------ *)
\* the step is the end of an iteration of beat_loop: the sleep, if any
SleepStep == pc = "sleep" /\ pc' = "tick"

\* C11: the sleep that ends an iteration of beat_loop lasts
\* next_tick_at - now, cut down to max_sleep_duration when one is
\* configured (so it never exceeds it), and there is no sleep at all when
\* now >= next_tick_at; the loop then ticks and consults should_sync again.
C11_SleepCapped ==
    [][SleepStep =>
          /\ now >= next_tick_at => now' = now /\ lastEvent' = "no_sleep"
          /\ now < next_tick_at =>
                /\ lastEvent' = "sleep"
                /\ \A c \in max_sleep_duration :
                      /\ now' - now <= c
                      /\ now' - now = c \/ now' = next_tick_at
                      /\ now' <= next_tick_at
                /\ max_sleep_duration = None => now' = next_tick_at]_vars

\* a sleep was cut short by max_sleep_duration: the next task is further away
C11_Witness ==
    /\ lastEvent = "sleep"
    /\ pc = "tick"
    /\ max_sleep_duration # None
    /\ now < next_tick_at

\* C12 (as stated): once scheduler_backend.sync has returned an error, start
\* makes no further call (no tick, sync, delay sleep or reconnect) and
\* returns that error.
C12_SyncErrorHalts ==
    /\ [][lastEvent = "sync_err" => lastEvent' = "sync_err"]_vars
    /\ []((lastEvent = "sync_err" /\ pc = "returned") => ret = loopResult)

(* ------------------------- the result backend -------------------------- *)
WellFormed(m) ==
    /\ m.date_done # None <=> Terminal(m.status)
    /\ m.result # None => m.status = "Success"
    /\ m.traceback # None => m.status = "Failure"

\* the records get_task_meta may return for a task id
StoredNow(id) == Stored(backend_kind, keys, collection, id)

\* C13: after any sequence of add_task, mark_as_started, mark_as_done and
\* mark_as_failure calls (and forgets, and a worker's Retry records), every
\* stored value decodes to a ResultMetadata, and every stored record is
\* well-formed: date_done is present iff the status is Success or Failure,
\* result only with Success, traceback only with Failure.
C13_StoredWellFormed ==
    \A id \in TaskIds :
       /\ \A r \in Meta(backend_kind, keys, collection, id) :
             r.err \in {"none", "DocumentNotFound"}
       /\ \A m \in StoredNow(id) : m.task_id = id /\ WellFormed(m)

C13_Witness ==
    /\ call.op = "mark_as_started" /\ call.res.err = "none"
    /\ \E m \in StoredNow(call.id) : m.status = "Started"
    /\ \E id \in TaskIds \ {call.id} :
          \E m \in StoredNow(id) : m.status = "Failure"

\* C14 (as stated): once the record of a task id has date_done set, no
\* operation other than forget leaves the stored record without date_done:
\* get_task_meta finds a record, and it has date_done.
C14_DateDoneNeverCleared ==
    \A id \in dated :
       /\ StoredNow(id) # {}
       /\ \A m \in StoredNow(id) : m.date_done # None

\* C15 (as stated): on both backends, after a forget(id) that returned Ok
\* and no write since, get_task_meta(id), get_state, get_result and
\* get_traceback do not return a value: they fail with DocumentNotFound
\* (or the store cannot be reached).
C15_ForgetThenNotFound ==
    (/\ call.op \in BackendReads /\ call.fresh
     /\ written.op = "forget" /\ written.id = call.id)
    => call.res.err \in {"DocumentNotFound", "Transport"}

\* C16 (as stated): store_result is an upsert on both backends: when
\* store_result(id, m) returned Ok and nothing was written since, a
\* get_task_meta(id) that the store answers returns a record equal to m.
C16_StoreResultUpserts ==
    (/\ call.op = "get_task_meta" /\ call.fresh
     /\ call.inner # "Transport"
     /\ written.op = "store" /\ written.id = call.id)
    => /\ call.res.err = "none"
       /\ call.res.meta = written.meta

\* C17 (as stated): the MongoDB collection holds at most one document per
\* task id.
C17_OneDocumentPerTask ==
    \A id \in TaskIds :
       /\ Cardinality(Matching(collection, id)) <= 1
       /\ \A d \in Matching(collection, id) : CopiesIn(d, collection) = 1

\* C18 (as stated): waiting for target_state returns as soon as a probe
\* observes that state or a terminal one: it never sleeps after such a
\* probe.
C18_WaitReturnsOnTarget ==
    client.pc = "sleep" =>
       \A st \in client.seen : st # client.target /\ ~Terminal(st)

Waiting == client.pc \in {"probe", "sleep"}
WaitReturns == client.pc = "probe" /\ client'.pc = "idle"
StoredTerminal ==
    \E m \in Stored("redis", keys, collection, HandleId) : Terminal(m.status)

\* C19: wait_for_completion returns Ok(true) exactly when its probe read
\* Success and Ok(false) exactly when it read Failure; what a probe reads is
\* the status stored at that moment; after reading Pending, Started or Retry
\* it sleeps and probes again; an error of the store during a probe is
\* returned at once (it never sleeps after a failed probe); and while the
\* stored status is terminal a waiting call eventually returns.
C19_WaitForCompletion ==
    /\ [][WaitReturns =>
            /\ call'.op = "AsyncResult::wait_for_completion"
            /\ call'.res.err = call'.inner
            /\ call'.inner = "none" =>
                  /\ call'.seen =
                        {m.status : m \in Stored("redis", keys, collection,
                                                 HandleId)}
                  /\ call'.res.bool = {TRUE} <=> call'.seen = Some("Success")
                  /\ call'.res.bool = {FALSE} <=> call'.seen = Some("Failure")
                  /\ call'.seen \in {Some("Success"), Some("Failure")}
            /\ call'.inner # "none" => call'.seen = None]_vars
    /\ [](client.pc = "sleep" =>
            \E st \in {"Pending", "Started", "Retry"} :
               client.seen = Some(st))
    /\ (Waiting /\ StoredTerminal) ~> (~Waiting \/ ~StoredTerminal)

C19_Witness ==
    /\ call.op = "AsyncResult::wait_for_completion"
    /\ call.res.err = "none" /\ call.res.bool = {TRUE}
    /\ call.seen = Some("Success")

\* C20: with no backend attached every AsyncResult operation returns NotSet
\* and nothing is asked of a backend (stores and client stay as they are);
\* with a backend attached, an error of the backend is what the caller gets.
C20_NotSetAndErrorsVerbatim ==
    /\ [](call.op \in HandleOps =>
            /\ backend = None =>
                  call.res.err = "NotSet" /\ call.inner = "not_called"
            /\ backend # None =>
                  /\ call.inner # "not_called"
                  /\ call.inner # "none" => call.res.err = call.inner)
    /\ [][(backend = None /\ call'.op \in HandleOps /\ call' # call)
             => UNCHANGED <<storeVars, client>>]_vars

C20_Witness ==
    /\ backend = None
    /\ call.op = "AsyncResult::wait_for_completion"
    /\ call.res.err = "NotSet"
    /\ \E id \in TaskIds : StoredNow(id) # {}

\* C21 (as stated): after a mark_as_done(id, r, T) that returned Ok and no
\* write since, when the store answers, get_state(id) is Success,
\* get_result(id) is Some(r), get_traceback(id) is None, and an AsyncResult
\* with a backend reports state Success, ready and successful true and
\* failed false; and whatever ready returns is whether a stored record is
\* terminal.
C21_AfterMarkAsDone ==
    /\ (/\ call.op \in BackendReads \cup HandleReads
        /\ call.inner \notin {"not_called", "Transport"}
        /\ call.fresh
        /\ written.op = "store" /\ written.id = call.id
        /\ \E m \in written.meta : m.status = "Success")
       => /\ call.inner = "none"
          /\ call.op \in {"get_state", "AsyncResult::state"} =>
                call.res.state = {"Success"}
          /\ call.op = "get_result" =>
                call.res.option = {m.result : m \in written.meta}
          /\ call.op \in {"get_traceback", "AsyncResult::traceback"} =>
                call.res.option = {None}
          /\ call.op \in {"AsyncResult::ready", "AsyncResult::successful"} =>
                call.res.bool = {TRUE}
          /\ call.op = "AsyncResult::failed" => call.res.bool = {FALSE}
    /\ (call.op = "AsyncResult::ready" /\ call.res.err = "none")
       => \E m \in StoredNow(call.id) : call.res.bool = {Terminal(m.status)}

\* C22: every iteration of beat_loop runs tick, then should_sync, then sync
\* exactly when should_sync answered true in this iteration, then the sleep
\* step; sync never runs while a tick is in progress, and with the local
\* backend (should_sync always false) sync is never reached.
TickInProgress == pc \in {"ticking", "tick_return"}

C22_BeatLoopOrder ==
    /\ [][/\ (pc = "tick_return" /\ tickResult.ok) => pc' = "should_sync"
          /\ (pc' = "should_sync" /\ pc # "should_sync") =>
                pc = "tick_return" /\ tickResult.ok
          /\ pc = "should_sync" =>
                /\ pc' \in {"sync", "sleep"}
                /\ pc' = "sync" <=> lastEvent' = "should_sync_true"
                /\ pc' = "sleep" <=> lastEvent' = "should_sync_false"
                /\ tasks' = tasks
          /\ (pc' = "sync" /\ pc # "sync") => pc = "should_sync"
          /\ (pc = "sync" /\ lastEvent' = "sync_ok") => pc' = "sleep"
          /\ (pc' = "sleep" /\ pc # "sleep") =>
                \/ pc = "should_sync" /\ lastEvent' = "should_sync_false"
                \/ pc = "sync" /\ lastEvent' = "sync_ok"
          /\ pc = "sleep" => pc' = "tick"
          /\ (lastEvent' \in {"sync_ok", "sync_err"} /\ lastEvent' # lastEvent)
                => pc = "sync"]_vars
    /\ [](pc = "sync" => /\ ~TickInProgress
                         /\ published = << >>
                         /\ tickStart = << >>
                         /\ lastEvent = "should_sync_true")
    /\ [](scheduler_backend = "local" =>
            /\ pc # "sync"
            /\ lastEvent \notin {"should_sync_true", "sync_ok", "sync_err"})

\* an iteration whose should_sync answered true has synced and is about to
\* sleep, after an earlier iteration has already slept
C22_Witness ==
    /\ pc = "sleep"
    /\ lastEvent = "sync_ok"
    /\ scheduler_backend = "custom"
    /\ now > 0

\* C23: a publish that fails with a non-connection error does not end the
\* tick with an error: the entry's next_call_at moves forward to where a
\* successful publish would have put it (strictly after the now() the tick
\* read), the other entries are untouched, the tick goes on until no entry
\* is due, and the refused entry is not handed to the broker again in that
\* tick.
C23_NonConnErrorAdvances ==
    /\ [][\A i \in DOMAIN tasks :
            PublishStep(i, "other") =>
                /\ tasks'[i].next_call_at = Fired(tasks[i], tickNow).next_call_at
                /\ tasks'[i].next_call_at > tasks[i].next_call_at
                /\ tasks'[i].next_call_at > tickNow
                /\ \A j \in DOMAIN tasks : j # i => tasks'[j] = tasks[j]
                /\ pc' = "ticking"
                /\ tickResult' = tickResult]_vars
    /\ [][(pc = "ticking" /\ pc' = "tick_return" /\ tickResult'.ok) =>
            \A i \in DOMAIN tasks : tasks[i].next_call_at > tickNow]_vars
    /\ [](\A j, k \in DOMAIN published :
            (published[j].out = "other" /\ j # k) =>
                published[k].id # published[j].id)

\* A was refused, B then went out, and the tick returned Ok
C23_Witness ==
    /\ TickReturnedOk
    /\ Len(published) = 2
    /\ published[1].out = "other"
    /\ published[2].out = "ok"
    /\ published[1].id # published[2].id
    /\ tasks[published[1].id].next_call_at > tickNow

\* the entry is a whole number k >= 1 of its periods after its registration
OnPhase(e) ==
    \A t0 \in e.t0 :
        /\ e.next_call_at >= t0 + e.d
        /\ (e.next_call_at - t0) % e.d = 0

\* C24: phase preservation. With the local backend (no sync ever runs) every
\* entry has next_call_at = t0 + k*d for some k >= 1 in every reachable
\* state; with any backend every step that changes an entry and is not a
\* sync keeps its t0 and d and moves next_call_at by a whole number (>= 0)
\* of periods d, and a new entry starts at t0 + d; a successful publish calls mark_fired with the
\* entry's next_call_at, and after mark_fired(t) next_call_at is > t.
C24_PhasePreserved ==
    /\ [](scheduler_backend = "local" =>
            \A i \in DOMAIN tasks : OnPhase(tasks[i]))
    /\ [][/\ \A i \in DOMAIN tasks :
                (tasks'[i] # tasks[i] /\ ~SyncStep) =>
                    /\ tasks'[i].t0 = tasks[i].t0
                    /\ tasks'[i].d = tasks[i].d
                    /\ tasks'[i].next_call_at >= tasks[i].next_call_at
                    /\ (tasks'[i].next_call_at - tasks[i].next_call_at)
                           % tasks[i].d = 0
          /\ Len(tasks') > Len(tasks) =>
                /\ tasks'[Len(tasks')].t0 = Some(now)
                /\ tasks'[Len(tasks')].next_call_at =
                       now + tasks'[Len(tasks')].d
          /\ \A i \in DOMAIN tasks :
                PublishStep(i, "ok") =>
                    /\ tasks'[i].last_run_at = Some(tasks[i].next_call_at)
                    /\ tasks'[i].next_call_at > tasks[i].next_call_at]_vars
    /\ [](\A i \in DOMAIN tasks : \A t \in {now, tasks[i].next_call_at} :
            mark_fired(tasks[i], t).next_call_at > t)

\* a tick that ran late, off the entry's phase: the entry was fired at its
\* own next_call_at and is still on the phase of its registration
C24_Witness ==
    /\ pc = "ticking"
    /\ lastEvent = "publish_ok"
    /\ scheduler_backend = "local"
    /\ LET p == published[Len(published)]
       IN /\ tasks[p.id].d = 2
          /\ (tickNow - p.at) % 2 = 1
          /\ tasks[p.id].last_run_at = Some(p.at)
          /\ tasks[p.id].next_call_at = tickNow + 1
          /\ tasks[p.id].t0 # None
          /\ OnPhase(tasks[p.id])

\* C25: the reconnect budget is per episode. Every episode starts with no
\* attempt used, whatever earlier episodes used; start gives up with
\* NotConnected only when the episode has made exactly
\* broker_connection_max_retries reconnect calls, and no episode makes more;
\* every reconnect call, the first of an episode included, comes right after
\* a sleep of broker_connection_retry_delay.
C25_BudgetPerEpisode ==
    /\ [][/\ (pc = "loop_result" /\ pc' = "retry") =>
                retryIdx' = 0 /\ episodeReconnects' = 0
          /\ (pc = "retry" /\ pc' = "returned") =>
                /\ episodeReconnects = broker_connection_max_retries
                /\ ret' = "NotConnected"
          /\ (pc = "retry" /\ episodeReconnects < broker_connection_max_retries)
                => pc' \in {"retry", "reconnect"}
          /\ (pc' = "reconnect" /\ pc # "reconnect") =>
                /\ pc = "retry"
                /\ now' = now + broker_connection_retry_delay
                /\ lastEvent' = "retry_sleep"
          /\ episodeReconnects' = episodeReconnects + 1 =>
                /\ pc = "reconnect"
                /\ lastEvent = "retry_sleep"
                /\ pc' # "reconnect"]_vars
    /\ [](episodeReconnects <= broker_connection_max_retries)
    /\ [](pc = "retry" => retryIdx = episodeReconnects)
    /\ [](pc = "reconnect" =>
            /\ lastEvent = "retry_sleep"
            /\ episodeReconnects < broker_connection_max_retries)

\* an earlier episode has used the whole budget of one attempt, and a later
\* episode is making a reconnect call all the same, after its sleep
C25_Witness ==
    /\ pc = "reconnect"
    /\ lastEvent = "retry_sleep"
    /\ broker_connection_max_retries = 1
    /\ episodeReconnects = 0
    /\ everReconnected
    /\ now >= 2 * broker_connection_retry_delay

\* C26: with broker_connection_retry enabled and
\* broker_connection_max_retries = 0, a broker connection error from
\* beat_loop makes start return NotConnected, whichever connection error it
\* was, without any reconnect call and without any delay sleep; and start
\* never returns Ok: whenever it has returned, it has returned an error.
C26_ZeroRetriesNeverOk ==
    /\ [][(/\ broker_connection_retry
           /\ broker_connection_max_retries = 0
           /\ loopResult \in ConnectionErrors) =>
              /\ pc = "loop_result" => pc' = "retry" /\ now' = now
              /\ pc = "retry" =>
                    /\ pc' = "returned"
                    /\ ret' = "NotConnected"
                    /\ now' = now]_vars
    /\ [](broker_connection_max_retries = 0 =>
            /\ pc # "reconnect"
            /\ episodeReconnects = 0
            /\ ~everReconnected
            /\ lastEvent \notin {"retry_sleep", "reconnect_ok",
                                 "reconnect_conn", "reconnect_other"})
    /\ [](pc = "returned" <=> ret # "running")
    /\ [](pc = "returned" => ret \in BeatErrors)

\* beat_loop failed with IoError, and start returned NotConnected at once
C26_Witness ==
    /\ pc = "returned"
    /\ broker_connection_retry
    /\ broker_connection_max_retries = 0
    /\ loopResult = "IoError"
    /\ ret = "NotConnected"
    /\ lastEvent = "publish_conn"

\* C27 (as stated): on Redis, a get_task_meta(id) whose EXISTS and GET have
\* a forget(id) of another handle between them returns, when the store
\* answers, the metadata stored before the forget or DocumentNotFound, and
\* no other error.
C27_ForgetSafeRead ==
    (/\ backend_kind = "redis"
     /\ call.op = "get_task_meta"
     /\ ~call.fresh
     /\ written.op = "forget" /\ written.id = call.id
     /\ call.inner # "Transport")
    => \/ call.inner = "DocumentNotFound"
       \/ call.inner = "none" /\ call.res.meta # {}

====
